---- MODULE Spec2Model ----
(***************************************************************************)
(* Model of the two batch scripts get_user.py (producer) and               *)
(* get_result_from_minio.py (consumer): anonymize -> flatten -> DataFrame  *)
(* -> Parquet -> Fernet encrypt -> MinIO put, and MinIO get -> Fernet      *)
(* decrypt -> Parquet read -> analysis -> cleanup.                         *)
(***************************************************************************)
EXTENDS Integers, Sequences, FiniteSets, TLC

(***************************************************************************)
(* Python / JSON values.  Every value carries its type so that values of   *)
(* different Python types are different values.                            *)
(***************************************************************************)
S(s) == [t |-> "str", s |-> s]
I(n) == [t |-> "int", n |-> n]
F(n) == [t |-> "float", n |-> n]     \* the float n.0
NaN == [t |-> "nan"]
Null == [t |-> "null"]               \* None
O(f) == [t |-> "obj", f |-> f]       \* a dict; f maps its keys to values
EmptyDict == O(<<>>)

IsObj(v) == v.t = "obj"

\* d[k] = v on a dict (adds the key when absent)
SetItem(d, k, v) == O([x \in (DOMAIN d.f) \cup {k} |-> IF x = k THEN v ELSE d.f[x]])

\* del d[k]
DelItem(d, k) == O([x \in (DOMAIN d.f) \ {k} |-> d.f[x]])

\* d.get(k, default)
Get(d, k, default) == IF k \in DOMAIN d.f THEN d.f[k] ELSE default

(***************************************************************************)
(* Bounds of the model.                                                    *)
(***************************************************************************)
MaxUsers == 2        \* longest batch of records given to the pure functions
MaxRuns == 2         \* producer runs in one behaviour
MaxConsumerRuns == 2 \* consumer runs in one behaviour

(***************************************************************************)
(* Raw user records (the randomuser.me result objects).  Raw(v) is a       *)
(* complete record whose leaf values depend on the variant v, so that two  *)
(* records of one batch differ; variant 1 carries a text postcode with a   *)
(* leading zero, variant 2 a numeric postcode, as the API returns both.    *)
(***************************************************************************)
Variants == {1, 2}

Tag(v) == IF v = 1 THEN "1" ELSE "2"

Raw(v) ==
    O([ gender |-> S(IF v = 1 THEN "female" ELSE "male"),
        name |-> O([ title |-> S("Ms" \o Tag(v)),
                     first |-> S("Jane" \o Tag(v)),
                     last |-> S("Doe" \o Tag(v)) ]),
        location |-> O([ street |-> O([ number |-> I(100 + v),
                                        name |-> S("Main St " \o Tag(v)) ]),
                         city |-> S("City" \o Tag(v)),
                         state |-> S("State" \o Tag(v)),
                         country |-> S("Country" \o Tag(v)),
                         postcode |-> IF v = 1 THEN S("00501") ELSE I(12345),
                         coordinates |-> O([ latitude |-> S("-12.345" \o Tag(v)),
                                             longitude |-> S("67.890" \o Tag(v)) ]),
                         timezone |-> O([ offset |-> S("+" \o Tag(v) \o ":00"),
                                          description |-> S("Zone" \o Tag(v)) ]) ]),
        email |-> S("jane" \o Tag(v) \o "@example.com"),
        login |-> O([ uuid |-> S("uuid" \o Tag(v)),
                      username |-> S("user" \o Tag(v)),
                      password |-> S("pass" \o Tag(v)),
                      salt |-> S("salt" \o Tag(v)),
                      md5 |-> S("md5" \o Tag(v)),
                      sha1 |-> S("sha1" \o Tag(v)),
                      sha256 |-> S("sha256" \o Tag(v)) ]),
        dob |-> O([ date |-> S("198" \o Tag(v) \o "-05-06T00:00:00.000Z"),
                    age |-> I(40 + v) ]),
        registered |-> O([ date |-> S("201" \o Tag(v) \o "-05-06T00:00:00.000Z"),
                           age |-> I(10 + v) ]),
        phone |-> S("555-000" \o Tag(v)),
        cell |-> S("555-100" \o Tag(v)),
        id |-> O([ name |-> S("SSN"), value |-> S("123-45-678" \o Tag(v)) ]),
        picture |-> O([ large |-> S("l" \o Tag(v) \o ".jpg"),
                        medium |-> S("m" \o Tag(v) \o ".jpg"),
                        thumbnail |-> S("t" \o Tag(v) \o ".jpg") ]),
        nat |-> S("N" \o Tag(v)) ])

\* The nested sub-objects of a record, as key paths.
SubObjectPaths ==
    { <<"name">>, <<"location">>, <<"location", "street">>,
      <<"location", "coordinates">>, <<"location", "timezone">>, <<"login">>,
      <<"dob">>, <<"registered">>, <<"id">>, <<"picture">> }

\* The leaves of a record, as key paths.
LeafPaths ==
    { <<"gender">>, <<"email">>, <<"phone">>, <<"cell">>, <<"nat">> }
    \cup { <<"name", k>> : k \in {"title", "first", "last"} }
    \cup { <<"location", k>> : k \in {"city", "state", "country", "postcode"} }
    \cup { <<"location", "street", k>> : k \in {"number", "name"} }
    \cup { <<"location", "coordinates", k>> : k \in {"latitude", "longitude"} }
    \cup { <<"location", "timezone", k>> : k \in {"offset", "description"} }
    \cup { <<"login", k>> : k \in {"uuid", "username", "password", "salt",
                                   "md5", "sha1", "sha256"} }
    \cup { <<"dob", k>> : k \in {"date", "age"} }
    \cup { <<"registered", k>> : k \in {"date", "age"} }
    \cup { <<"id", k>> : k \in {"name", "value"} }
    \cup { <<"picture", k>> : k \in {"large", "medium", "thumbnail"} }

\* Whether the path leads to a value of the record.
RECURSIVE HasPath(_, _)
HasPath(d, path) ==
    IF path = <<>> THEN TRUE
    ELSE /\ IsObj(d)
         /\ Head(path) \in DOMAIN d.f
         /\ HasPath(d.f[Head(path)], Tail(path))

\* The value at a path that the record has.
RECURSIVE AtPath(_, _)
AtPath(d, path) ==
    IF path = <<>> THEN d ELSE AtPath(d.f[Head(path)], Tail(path))

\* The record without the key at the path (unchanged when the path is absent).
RECURSIVE Without(_, _)
Without(d, path) ==
    IF ~HasPath(d, path) THEN d
    ELSE IF Len(path) = 1 THEN DelItem(d, path[1])
    ELSE SetItem(d, Head(path), Without(d.f[Head(path)], Tail(path)))

\* The record with JSON null at a leaf it has (the API returns null id.value).
RECURSIVE WithNull(_, _)
WithNull(d, path) ==
    IF ~HasPath(d, path) THEN d
    ELSE IF Len(path) = 1 THEN SetItem(d, path[1], Null)
    ELSE SetItem(d, Head(path), WithNull(d.f[Head(path)], Tail(path)))

\* The ways one record of a batch departs from a complete record.
Defects ==
    { [kind |-> "none", path |-> <<>>] }
    \cup { [kind |-> "absent", path |-> p] : p \in SubObjectPaths \cup LeafPaths }
    \cup { [kind |-> "null", path |-> p] : p \in LeafPaths }

Defective(d, defect) ==
    CASE defect.kind = "none" -> d
      [] defect.kind = "absent" -> Without(d, defect.path)
      [] defect.kind = "null" -> WithNull(d, defect.path)

\* The batches given to the pure functions: n records of alternating variants,
\* at most one of them defective.
Batches ==
    { [i \in 1..n |-> IF i = at THEN Defective(Raw(((i + v) % 2) + 1), defect)
                      ELSE Raw(((i + v) % 2) + 1)] :
        n \in 0..MaxUsers, at \in 1..MaxUsers, v \in Variants, defect \in Defects }

(***************************************************************************)
(* anonymize_user_data: twelve item assignments per record, in the order   *)
(* of the code, on the records themselves (the list is mutated in place).  *)
(* user[a][b] = x raises KeyError when user has no key a; the exception    *)
(* leaves the loop and the function with the earlier assignments done.     *)
(***************************************************************************)
\* Mutant: the password overwrite is missing.
SentinelsWithoutPassword ==
    << [path |-> <<"name", "first">>, value |-> S("ANONYMIZED_FIRST")],
       [path |-> <<"name", "last">>, value |-> S("ANONYMIZED_LAST")],
       [path |-> <<"location", "street", "number">>, value |-> S("ANONYMIZED_NUMBER")],
       [path |-> <<"location", "street", "name">>, value |-> S("ANONYMIZED_STREET")],
       [path |-> <<"location", "coordinates", "latitude">>, value |-> S("0.0000")],
       [path |-> <<"location", "coordinates", "longitude">>, value |-> S("0.0000")],
       [path |-> <<"login", "username">>, value |-> S("ANONYMIZED_USERNAME")],
       [path |-> <<"dob", "date">>, value |-> S("1970-01-01T00:00:00.000Z")],
       [path |-> <<"dob", "age">>, value |-> I(0)],
       [path |-> <<"phone">>, value |-> S("ANONYMIZED_PHONE")],
       [path |-> <<"cell">>, value |-> S("ANONYMIZED_CELL")] >>

Sentinels ==
    << [path |-> <<"name", "first">>, value |-> S("ANONYMIZED_FIRST")],
       [path |-> <<"name", "last">>, value |-> S("ANONYMIZED_LAST")],
       [path |-> <<"location", "street", "number">>, value |-> S("ANONYMIZED_NUMBER")],
       [path |-> <<"location", "street", "name">>, value |-> S("ANONYMIZED_STREET")],
       [path |-> <<"location", "coordinates", "latitude">>, value |-> S("0.0000")],
       [path |-> <<"location", "coordinates", "longitude">>, value |-> S("0.0000")],
       [path |-> <<"login", "username">>, value |-> S("ANONYMIZED_USERNAME")],
       [path |-> <<"login", "password">>, value |-> S("ANONYMIZED_PASSWORD")],
       [path |-> <<"dob", "date">>, value |-> S("1970-01-01T00:00:00.000Z")],
       [path |-> <<"dob", "age">>, value |-> I(0)],
       [path |-> <<"phone">>, value |-> S("ANONYMIZED_PHONE")],
       [path |-> <<"cell">>, value |-> S("ANONYMIZED_CELL")] >>

\* d[p1]...[pn] = v: the dict after the assignment, or the exception raised.
RECURSIVE AssignPath(_, _, _)
AssignPath(d, path, v) ==
    IF Len(path) = 1 THEN [err |-> "", d |-> SetItem(d, path[1], v)]
    ELSE IF Head(path) \notin DOMAIN d.f THEN [err |-> "KeyError", d |-> d]
    ELSE IF ~IsObj(d.f[Head(path)]) THEN [err |-> "TypeError", d |-> d]
    ELSE LET r == AssignPath(d.f[Head(path)], Tail(path), v)
         IN  [err |-> r.err,
              d |-> IF r.err = "" THEN SetItem(d, Head(path), r.d) ELSE d]

\* The assignments i.. of the loop body on one record.
RECURSIVE AnonymizeFrom(_, _)
AnonymizeFrom(user, i) ==
    IF i > Len(Sentinels) THEN [err |-> "", d |-> user]
    ELSE LET r == AssignPath(user, Sentinels[i].path, Sentinels[i].value)
         IN  IF r.err # "" THEN r ELSE AnonymizeFrom(r.d, i + 1)

AnonymizeUser(user) == AnonymizeFrom(user, 1)

\* The loop over the records from index i on.
RECURSIVE AnonymizeLoop(_, _)
AnonymizeLoop(users, i) ==
    IF i > Len(users) THEN [err |-> "", users |-> users]
    ELSE LET r == AnonymizeUser(users[i])
             done == [users EXCEPT ![i] = r.d]
         IN  IF r.err # "" THEN [err |-> r.err, users |-> done]
             ELSE AnonymizeLoop(done, i + 1)

anonymize_user_data(users) == AnonymizeLoop(users, 1)

(***************************************************************************)
(* flatten_user_data: one row per record, built by 34 assignments in the   *)
(* order of the code.  A row is the sequence of its (column, value) pairs  *)
(* in insertion order, as a Python dict keeps them.                        *)
(***************************************************************************)
FlatSchema ==
    << [col |-> "gender", obj |-> <<>>, key |-> "gender"],
       [col |-> "name_title", obj |-> <<"name">>, key |-> "title"],
       [col |-> "name_first", obj |-> <<"name">>, key |-> "first"],
       [col |-> "name_last", obj |-> <<"name">>, key |-> "last"],
       [col |-> "street_number", obj |-> <<"location", "street">>, key |-> "number"],
       [col |-> "street_name", obj |-> <<"location", "street">>, key |-> "name"],
       [col |-> "city", obj |-> <<"location">>, key |-> "city"],
       [col |-> "state", obj |-> <<"location">>, key |-> "state"],
       [col |-> "country", obj |-> <<"location">>, key |-> "country"],
       [col |-> "postcode", obj |-> <<"location">>, key |-> "postcode"],
       [col |-> "latitude", obj |-> <<"location", "coordinates">>, key |-> "latitude"],
       [col |-> "longitude", obj |-> <<"location", "coordinates">>, key |-> "longitude"],
       [col |-> "timezone_offset", obj |-> <<"location", "timezone">>, key |-> "offset"],
       [col |-> "timezone_description", obj |-> <<"location", "timezone">>,
        key |-> "description"],
       [col |-> "email", obj |-> <<>>, key |-> "email"],
       [col |-> "login_uuid", obj |-> <<"login">>, key |-> "uuid"],
       [col |-> "username", obj |-> <<"login">>, key |-> "username"],
       [col |-> "password", obj |-> <<"login">>, key |-> "password"],
       [col |-> "salt", obj |-> <<"login">>, key |-> "salt"],
       [col |-> "md5", obj |-> <<"login">>, key |-> "md5"],
       [col |-> "sha1", obj |-> <<"login">>, key |-> "sha1"],
       [col |-> "sha256", obj |-> <<"login">>, key |-> "sha256"],
       [col |-> "dob_date", obj |-> <<"dob">>, key |-> "date"],
       [col |-> "dob_age", obj |-> <<"dob">>, key |-> "age"],
       [col |-> "registered_date", obj |-> <<"registered">>, key |-> "date"],
       [col |-> "registered_age", obj |-> <<"registered">>, key |-> "age"],
       [col |-> "phone", obj |-> <<>>, key |-> "phone"],
       [col |-> "cell", obj |-> <<>>, key |-> "cell"],
       [col |-> "id_name", obj |-> <<"id">>, key |-> "name"],
       [col |-> "id_value", obj |-> <<"id">>, key |-> "value"],
       [col |-> "picture_large", obj |-> <<"picture">>, key |-> "large"],
       [col |-> "picture_medium", obj |-> <<"picture">>, key |-> "medium"],
       [col |-> "picture_thumbnail", obj |-> <<"picture">>, key |-> "thumbnail"],
       [col |-> "nat", obj |-> <<>>, key |-> "nat"] >>

\* user.get(a, {}).get(b, {})...: the sub-object at the path, {} when absent.
RECURSIVE SubObject(_, _)
SubObject(d, path) ==
    IF path = <<>> THEN d ELSE SubObject(Get(d, Head(path), EmptyDict), Tail(path))

\* Mutant: the innermost sub-object is looked up in the record itself
\* (street = user.get('street', {})).
FlatValueFromTopLevel(user, entry) ==
    Get(IF entry.obj = <<>> THEN user
        ELSE Get(user, entry.obj[Len(entry.obj)], EmptyDict),
        entry.key, Null)

\* sub.get(key): the leaf, None when absent.
FlatValue(user, entry) == Get(SubObject(user, entry.obj), entry.key, Null)

FlattenUser(user) ==
    [i \in 1..Len(FlatSchema) |-> <<FlatSchema[i].col, FlatValue(user, FlatSchema[i])>>]

flatten_user_data(users) == [i \in 1..Len(users) |-> FlattenUser(users[i])]

\* Reading a flat table: its column names in order, and a row's value of a column.
RowColumns(row) == [i \in 1..Len(row) |-> row[i][1]]

RowValue(row, col) == LET i == CHOOSE j \in 1..Len(row) : row[j][1] = col IN row[i][2]

(***************************************************************************)
(* The columnar codec of the producer: pd.DataFrame(flat_users), the cast  *)
(* df['postcode'].astype(str), pa.Table.from_pandas and pq.write_table;    *)
(* and of the consumer: pq.read_table and Table.to_pandas.  A DataFrame is *)
(* the sequence of its columns, each with a dtype and one value per row.   *)
(***************************************************************************)
IsInt(v) == v.t = "int"
IsNumeric(v) == v.t \in {"int", "float"}
IsMissing(v) == v.t \in {"null", "nan"}

\* The dtype pandas infers for a column of Python values.
InferDtype(vals) ==
    IF vals # <<>> /\ \A i \in DOMAIN vals : IsInt(vals[i]) THEN "int64"
    ELSE IF /\ \E i \in DOMAIN vals : IsNumeric(vals[i])
            /\ \A i \in DOMAIN vals : IsNumeric(vals[i]) \/ IsMissing(vals[i])
         THEN "float64"
    ELSE "object"

\* A value as stored in a column of the dtype: integers of a float64 column
\* become floats and its missing values NaN.
Stored(v, dtype) ==
    IF dtype = "float64"
    THEN (IF IsMissing(v) THEN NaN ELSE F(v.n))
    ELSE v

\* pd.DataFrame(rows) for rows that share their keys; an empty list gives a
\* frame without columns.
DataFrame(rows) ==
    IF rows = <<>> THEN <<>>
    ELSE [c \in 1..Len(rows[1]) |->
            LET vals == [r \in 1..Len(rows) |-> rows[r][c][2]]
                dtype == InferDtype(vals)
            IN  [name |-> rows[1][c][1],
                 dtype |-> dtype,
                 vals |-> [r \in 1..Len(rows) |-> Stored(vals[r], dtype)]]]

Digits == <<"0", "1", "2", "3", "4", "5", "6", "7", "8", "9">>

\* str(n) for an integer n
RECURSIVE IntStr(_)
IntStr(n) ==
    IF n < 0 THEN "-" \o IntStr(-n)
    ELSE IF n < 10 THEN Digits[n + 1]
    ELSE IntStr(n \div 10) \o Digits[(n % 10) + 1]

\* str(x) as Series.astype(str) applies it to each element of a column
PyStr(v) ==
    CASE v.t = "str" -> v.s
      [] v.t = "int" -> IntStr(v.n)
      [] v.t = "float" -> IntStr(v.n) \o ".0"
      [] v.t = "nan" -> "nan"
      [] v.t = "null" -> "None"

AsTypeStr(col) ==
    [col EXCEPT !.dtype = "object",
                !.vals = [r \in DOMAIN col.vals |-> S(PyStr(col.vals[r]))]]

HasColumn(df, name) == \E c \in DOMAIN df : df[c].name = name

\* df['postcode'] = df['postcode'].astype(str); KeyError without the column
CastPostcode(df) ==
    IF ~HasColumn(df, "postcode") THEN [err |-> "KeyError", df |-> df]
    ELSE [err |-> "",
          df |-> [c \in DOMAIN df |->
                    IF df[c].name = "postcode" THEN AsTypeStr(df[c]) ELSE df[c]]]

\* The Arrow type of a column: by dtype, and for an object column by its
\* values, which must be of one type.
ArrowType(col) ==
    LET present == {r \in DOMAIN col.vals : ~IsMissing(col.vals[r])}
    IN  CASE col.dtype = "int64" -> "int64"
          [] col.dtype = "float64" -> "double"
          [] OTHER ->
               IF present = {} THEN "null"
               ELSE IF \A r \in present : col.vals[r].t = "str" THEN "string"
               ELSE IF \A r \in present : col.vals[r].t = "int" THEN "int64"
               ELSE "ArrowError"

\* pa.Table.from_pandas(df): missing values (None, NaN) become Arrow nulls; the
\* pandas dtype of each column is kept in the schema metadata.
TableFromPandas(df) ==
    IF \E c \in DOMAIN df : ArrowType(df[c]) = "ArrowError"
    THEN [err |-> "ArrowError", table |-> <<>>]
    ELSE [err |-> "",
          table |-> [c \in DOMAIN df |->
                       [name |-> df[c].name,
                        type |-> ArrowType(df[c]),
                        pandas |-> df[c].dtype,
                        vals |-> [r \in DOMAIN df[c].vals |->
                                    IF IsMissing(df[c].vals[r]) THEN Null
                                    ELSE df[c].vals[r]]]]]

\* Lines 175-183 of the producer: the bytes written to the Parquet file, or
\* the exception raised on the way.
Serialize(flat_users) ==
    LET cast == CastPostcode(DataFrame(flat_users))
    IN  IF cast.err # "" THEN [err |-> cast.err, table |-> <<>>]
        ELSE TableFromPandas(cast.df)

\* read_parquet_file: pq.read_table(...).to_pandas(); nulls of a float64 column
\* come back as NaN, those of an object column as None.
read_parquet_file(table) ==
    [c \in DOMAIN table |->
        [name |-> table[c].name,
         dtype |-> table[c].pandas,
         vals |-> [r \in DOMAIN table[c].vals |->
                     IF table[c].vals[r] = Null
                     THEN (IF table[c].pandas = "float64" THEN NaN ELSE Null)
                     ELSE table[c].vals[r]]]]

\* Reading a DataFrame: its number of rows, its column names, one cell.
FrameRows(df) == IF df = <<>> THEN 0 ELSE Len(df[1].vals)

FrameColumns(df) == [c \in DOMAIN df |-> df[c].name]

Cell(df, r, name) == LET c == CHOOSE k \in DOMAIN df : df[k].name = name IN df[c].vals[r]

(***************************************************************************)
(* Fernet.  A key is one of the values Fernet.generate_key() returns.  A   *)
(* token carries a version byte, the IV, the ciphertext and an HMAC over   *)
(* version, IV and ciphertext; ciphertext and HMAC are symbolic terms that *)
(* name the key they were made with.                                       *)
(***************************************************************************)
Key(n) == [t |-> "key", n |-> n]

IsKey(v) == v.t = "key"

FernetVersion == "0x80"

Ciphertext(key, iv, plaintext) == [enc_key |-> key, iv |-> iv, pt |-> plaintext]

Hmac(key, version, iv, ct) == [mac_key |-> key, version |-> version, iv |-> iv, ct |-> ct]

\* Fernet(key).encrypt(plaintext) with the IV that os.urandom gave
FernetEncrypt(key, iv, plaintext) ==
    LET ct == Ciphertext(key, iv, plaintext)
    IN  [t |-> "token", version |-> FernetVersion, iv |-> iv, ct |-> ct,
         mac |-> Hmac(key, FernetVersion, iv, ct)]

IsToken(v) == v.t = "token"

\* Fernet(key).decrypt(token): the version byte and the HMAC are verified
\* before anything is decrypted; InvalidToken otherwise.
FernetDecrypt(key, token) ==
    IF ~IsToken(token) THEN [err |-> "InvalidToken", pt |-> Null]
    ELSE IF token.version # FernetVersion THEN [err |-> "InvalidToken", pt |-> Null]
    ELSE IF token.mac # Hmac(key, token.version, token.iv, token.ct)
         THEN [err |-> "InvalidToken", pt |-> Null]
    ELSE [err |-> "", pt |-> token.ct.pt]

\* The bytes of a token with one bit flipped in the named part.
TamperKinds == {"version", "iv", "ct", "mac"}

Tamper(token, kind) ==
    CASE kind = "version" -> [token EXCEPT !.version = "0x81"]
      [] kind = "iv" -> [token EXCEPT !.iv = token.iv + 1]
      [] kind = "ct" -> [token EXCEPT !.ct = [token.ct EXCEPT !.iv = token.ct.iv + 1]]
      [] kind = "mac" -> [token EXCEPT !.mac = [token.mac EXCEPT !.iv = token.mac.iv + 1]]

(***************************************************************************)
(* Files.  The file system maps each file name to its content, or Absent.  *)
(***************************************************************************)
Absent == [t |-> "absent"]

Bytes(b) == [t |-> "bytes", b |-> b]

Parquet(table) == [t |-> "parquet", table |-> table]

ObjectName == "users_anonymized.parquet.enc"   \* config['minio']['object_name']

ParquetFile == "users_anonymized.parquet"
EncFile == ParquetFile \o ".enc"
KeyFile == "encryption_key.key"
DownloadedFile == "downloaded_" \o ObjectName
DecryptedFile == "decrypted_users_anonymized.parquet"   \* '.enc' removed from the name

Files == {ParquetFile, EncFile, KeyFile, DownloadedFile, DecryptedFile}

NoFiles == [f \in Files |-> Absent]

\* encrypt_file(file_path, key) on the file system `files`, with the IV that
\* os.urandom gives: the file system after the call and the path returned, or
\* the exception raised.
encrypt_file(files, file_path, key, iv) ==
    IF ~IsKey(key) THEN [err |-> "ValueError", fs |-> files, path |-> ""]
    ELSE IF files[file_path] = Absent
         THEN [err |-> "FileNotFoundError", fs |-> files, path |-> ""]
    ELSE [err |-> "",
          fs |-> [files EXCEPT ![file_path \o ".enc"] =
                                   FernetEncrypt(key, iv, files[file_path])],
          path |-> file_path \o ".enc"]

\* Mutant: InvalidToken is caught, and the bytes read are written as they are.
decrypt_file_swallows_invalid_token(files, encrypted_file_path, decrypted_file_path, key) ==
    IF ~IsKey(key) THEN [err |-> "ValueError", fs |-> files]
    ELSE IF files[encrypted_file_path] = Absent
         THEN [err |-> "FileNotFoundError", fs |-> files]
    ELSE LET r == FernetDecrypt(key, files[encrypted_file_path])
         IN  [err |-> "",
              fs |-> [files EXCEPT ![decrypted_file_path] =
                                       IF r.err # "" THEN files[encrypted_file_path]
                                       ELSE r.pt]]

\* Mutant: the bytes read, not the bytes decrypted, are written.
decrypt_file_writes_encrypted(files, encrypted_file_path, decrypted_file_path, key) ==
    IF ~IsKey(key) THEN [err |-> "ValueError", fs |-> files]
    ELSE IF files[encrypted_file_path] = Absent
         THEN [err |-> "FileNotFoundError", fs |-> files]
    ELSE LET r == FernetDecrypt(key, files[encrypted_file_path])
         IN  IF r.err # "" THEN [err |-> r.err, fs |-> files]
             ELSE [err |-> "",
                   fs |-> [files EXCEPT ![decrypted_file_path] =
                                            files[encrypted_file_path]]]

\* decrypt_file(encrypted_file_path, decrypted_file_path, key): the output
\* file is opened only after fernet.decrypt returned.
decrypt_file(files, encrypted_file_path, decrypted_file_path, key) ==
    IF ~IsKey(key) THEN [err |-> "ValueError", fs |-> files]
    ELSE IF files[encrypted_file_path] = Absent
         THEN [err |-> "FileNotFoundError", fs |-> files]
    ELSE LET r == FernetDecrypt(key, files[encrypted_file_path])
         IN  IF r.err # "" THEN [err |-> r.err, fs |-> files]
             ELSE [err |-> "", fs |-> [files EXCEPT ![decrypted_file_path] = r.pt]]

(***************************************************************************)
(* State.                                                                  *)
(***************************************************************************)
VARIABLES
    h_input,    \* the argument given to the function under test
    h_done,     \* the calls made so far, in order
    h_users,    \* the list of records (anonymize_user_data mutates it)
    h_flat,     \* the value flatten_user_data returned
    h_df,       \* the DataFrame read_parquet_file returned
    h_err,      \* the exception raised by the last call, "" when none
    h_key,      \* the key given to decrypt_file
    fs,         \* the files of the working directory
    config,     \* config.json: "ok", "missing" or "malformed"
    bucket,     \* the MinIO bucket: whether it exists, and the object in it
    entropy,    \* draws made from the random source (keys and IVs are fresh)
    prod,       \* the producer process: position, locals, exit status
    cons,       \* the consumer process: position, locals, exit status
    put_log     \* what the producer has put into the bucket so far

hvars == <<h_input, h_done, h_users, h_flat, h_df, h_err, h_key>>
pvars == <<config, bucket, entropy, prod, cons, put_log>>
vars == <<h_input, h_done, h_users, h_flat, h_df, h_err, h_key, fs, config, bucket,
          entropy, prod, cons, put_log>>

Last(seq) == IF seq = <<>> THEN "" ELSE seq[Len(seq)]

ProdIdle ==
    [pc |-> "idle", runs |-> 0, users |-> <<>>, flat_users |-> <<>>, key |-> Null,
     encrypted_file |-> "", status |-> "", failed |-> "", stages |-> <<>>,
     effects |-> {}]

ConsIdle ==
    [pc |-> "idle", runs |-> 0, key |-> Null, df |-> <<>>, status |-> "",
     failed |-> "", stages |-> <<>>, wrote |-> FALSE]

NoBucket == [exists |-> FALSE, obj |-> Absent]

\* The pipeline at rest, as the harnesses of the pure functions leave it.
PipelineIdle ==
    /\ config = "ok"
    /\ bucket = NoBucket
    /\ entropy = 0
    /\ prod = ProdIdle
    /\ cons = ConsIdle
    /\ put_log = <<>>

HarnessIdle ==
    /\ h_input = <<>>
    /\ h_done = <<>>
    /\ h_users = <<>>
    /\ h_flat = <<>>
    /\ h_df = <<>>
    /\ h_err = ""
    /\ h_key = Null

(***************************************************************************)
(* SpecData: anonymize_user_data, flatten_user_data, the Parquet write of  *)
(* the producer and read_parquet_file, each called on the result of the    *)
(* one before, from every batch of Batches.                                *)
(***************************************************************************)
InitData ==
    /\ h_input \in Batches
    /\ h_users = h_input
    /\ h_done = <<>>
    /\ h_flat = <<>>
    /\ h_df = <<>>
    /\ h_err = ""
    /\ h_key = Null
    /\ fs = NoFiles
    /\ PipelineIdle

CallAnonymize ==
    /\ h_done = <<>>
    /\ LET r == anonymize_user_data(h_users)
       IN  /\ h_users' = r.users
           /\ h_err' = r.err
    /\ h_done' = Append(h_done, "anonymize")
    /\ UNCHANGED <<h_input, h_flat, h_df, h_key, fs, pvars>>

CallFlatten ==
    /\ h_done \in {<<>>, <<"anonymize">>}
    /\ h_err = ""
    /\ h_flat' = flatten_user_data(h_users)
    /\ h_done' = Append(h_done, "flatten")
    /\ UNCHANGED <<h_input, h_users, h_df, h_err, h_key, fs, pvars>>

CallSerialize ==
    /\ Last(h_done) = "flatten"
    /\ LET r == Serialize(h_flat)
       IN  /\ h_err' = r.err
           /\ fs' = IF r.err = "" THEN [fs EXCEPT ![ParquetFile] = Parquet(r.table)]
                    ELSE fs
    /\ h_done' = Append(h_done, "serialize")
    /\ UNCHANGED <<h_input, h_users, h_flat, h_df, h_key, pvars>>

CallReadParquet ==
    /\ Last(h_done) = "serialize"
    /\ h_err = ""
    /\ h_df' = read_parquet_file(fs[ParquetFile].table)
    /\ h_done' = Append(h_done, "read")
    /\ UNCHANGED <<h_input, h_users, h_flat, h_err, h_key, fs, pvars>>

NextData == CallAnonymize \/ CallFlatten \/ CallSerialize \/ CallReadParquet

SpecData == InitData /\ [][NextData]_vars

(***************************************************************************)
(* Claims about the pure functions, checked under SpecData.                *)
(***************************************************************************)
\* The sub-objects anonymize_user_data assigns into.
AnonymizedSubObjects ==
    { <<"name">>, <<"location">>, <<"location", "street">>,
      <<"location", "coordinates">>, <<"login">>, <<"dob">> }

\* The twelve sensitive leaves and the sentinel each must hold.
SensitiveLeaves ==
    { <<"name", "first">>, <<"name", "last">>, <<"location", "street", "number">>,
      <<"location", "street", "name">>, <<"location", "coordinates", "latitude">>,
      <<"location", "coordinates", "longitude">>, <<"login", "username">>,
      <<"login", "password">>, <<"dob", "date">>, <<"dob", "age">>, <<"phone">>,
      <<"cell">> }

SentinelOf(path) ==
    CASE path = <<"name", "first">> -> S("ANONYMIZED_FIRST")
      [] path = <<"name", "last">> -> S("ANONYMIZED_LAST")
      [] path = <<"location", "street", "number">> -> S("ANONYMIZED_NUMBER")
      [] path = <<"location", "street", "name">> -> S("ANONYMIZED_STREET")
      [] path = <<"location", "coordinates", "latitude">> -> S("0.0000")
      [] path = <<"location", "coordinates", "longitude">> -> S("0.0000")
      [] path = <<"login", "username">> -> S("ANONYMIZED_USERNAME")
      [] path = <<"login", "password">> -> S("ANONYMIZED_PASSWORD")
      [] path = <<"dob", "date">> -> S("1970-01-01T00:00:00.000Z")
      [] path = <<"dob", "age">> -> I(0)
      [] path = <<"phone">> -> S("ANONYMIZED_PHONE")
      [] path = <<"cell">> -> S("ANONYMIZED_CELL")

HasAllSubObjects(user) == \A p \in AnonymizedSubObjects : HasPath(user, p)

\* The record holds the sentinel at the sensitive leaf.
HoldsSentinel(user, path) == HasPath(user, path) /\ AtPath(user, path) = SentinelOf(path)

\* The two records agree at the path: both lack it, or both hold the same value.
SameAt(a, b, path) ==
    /\ HasPath(a, path) <=> HasPath(b, path)
    /\ HasPath(a, path) => AtPath(a, path) = AtPath(b, path)

\* C1: on records that contain all nested sub-objects, anonymize_user_data
\* returns normally, keeps the number and order of the records, leaves each of
\* the twelve sensitive leaves equal to its sentinel and every other field
\* (leaf or sub-object) as it was in the input.
C1_AnonymizeOverwritesExactlySentinels ==
    (h_done = <<"anonymize">> /\ \A i \in DOMAIN h_input : HasAllSubObjects(h_input[i]))
    => /\ h_err = ""
       /\ Len(h_users) = Len(h_input)
       /\ \A i \in DOMAIN h_input :
            /\ \A p \in SensitiveLeaves : HoldsSentinel(h_users[i], p)
            /\ \A p \in LeafPaths \ SensitiveLeaves : SameAt(h_users[i], h_input[i], p)
            /\ \A p \in SubObjectPaths : HasPath(h_users[i], p) <=> HasPath(h_input[i], p)

\* Two different complete-enough records were anonymized, one of them lacking
\* a leaf, and their sensitive values were not the sentinels before.
C1_Witness ==
    /\ h_done = <<"anonymize">>
    /\ Len(h_input) = 2
    /\ \A i \in DOMAIN h_input : HasAllSubObjects(h_input[i])
    /\ ~HasPath(h_input[2], <<"name", "first">>)
    /\ AtPath(h_input[1], <<"email">>) # AtPath(h_input[2], <<"email">>)
    /\ AtPath(h_input[1], <<"login", "password">>) = S("pass1")
    /\ HoldsSentinel(h_users[2], <<"name", "first">>)

\* C2 (as claimed): anonymize_user_data never raises; under a missing
\* sub-object it skips the overwrites there, and still overwrites every
\* sensitive leaf whose sub-object is present, in that record and in all
\* later records.
C2_AnonymizeSkipsMissingSubObjects ==
    h_done = <<"anonymize">>
    => /\ h_err = ""
       /\ \A i \in DOMAIN h_input : \A p \in SensitiveLeaves :
            IF HasPath(h_input[i], SubSeq(p, 1, Len(p) - 1))
            THEN HoldsSentinel(h_users[i], p)
            ELSE ~HasPath(h_users[i], p)

\* The 34 columns of the flat schema, in order.
ExpectedColumns ==
    << "gender", "name_title", "name_first", "name_last", "street_number",
       "street_name", "city", "state", "country", "postcode", "latitude", "longitude",
       "timezone_offset", "timezone_description", "email", "login_uuid", "username",
       "password", "salt", "md5", "sha1", "sha256", "dob_date", "dob_age",
       "registered_date", "registered_age", "phone", "cell", "id_name", "id_value",
       "picture_large", "picture_medium", "picture_thumbnail", "nat" >>

\* The source path of each column.
SourcePath(col) ==
    CASE col = "gender" -> <<"gender">>
      [] col = "name_title" -> <<"name", "title">>
      [] col = "name_first" -> <<"name", "first">>
      [] col = "name_last" -> <<"name", "last">>
      [] col = "street_number" -> <<"location", "street", "number">>
      [] col = "street_name" -> <<"location", "street", "name">>
      [] col = "city" -> <<"location", "city">>
      [] col = "state" -> <<"location", "state">>
      [] col = "country" -> <<"location", "country">>
      [] col = "postcode" -> <<"location", "postcode">>
      [] col = "latitude" -> <<"location", "coordinates", "latitude">>
      [] col = "longitude" -> <<"location", "coordinates", "longitude">>
      [] col = "timezone_offset" -> <<"location", "timezone", "offset">>
      [] col = "timezone_description" -> <<"location", "timezone", "description">>
      [] col = "email" -> <<"email">>
      [] col = "login_uuid" -> <<"login", "uuid">>
      [] col = "username" -> <<"login", "username">>
      [] col = "password" -> <<"login", "password">>
      [] col = "salt" -> <<"login", "salt">>
      [] col = "md5" -> <<"login", "md5">>
      [] col = "sha1" -> <<"login", "sha1">>
      [] col = "sha256" -> <<"login", "sha256">>
      [] col = "dob_date" -> <<"dob", "date">>
      [] col = "dob_age" -> <<"dob", "age">>
      [] col = "registered_date" -> <<"registered", "date">>
      [] col = "registered_age" -> <<"registered", "age">>
      [] col = "phone" -> <<"phone">>
      [] col = "cell" -> <<"cell">>
      [] col = "id_name" -> <<"id", "name">>
      [] col = "id_value" -> <<"id", "value">>
      [] col = "picture_large" -> <<"picture", "large">>
      [] col = "picture_medium" -> <<"picture", "medium">>
      [] col = "picture_thumbnail" -> <<"picture", "thumbnail">>
      [] col = "nat" -> <<"nat">>

\* C3: flatten_user_data returns one row per record, in input order; every
\* row has the 34 columns of the schema in the fixed order; a column holds the
\* value at its source path, and null when the path is missing from the record.
C3_FlattenOneUniformRowPerRecord ==
    Last(h_done) = "flatten"
    => /\ Len(h_flat) = Len(h_users)
       /\ \A i \in DOMAIN h_flat :
            /\ RowColumns(h_flat[i]) = ExpectedColumns
            /\ \A k \in DOMAIN ExpectedColumns :
                 h_flat[i][k][2] =
                    IF HasPath(h_users[i], SourcePath(ExpectedColumns[k]))
                    THEN AtPath(h_users[i], SourcePath(ExpectedColumns[k]))
                    ELSE Null

\* Raw records were flattened, the second without its location sub-object:
\* its city is null while the first row's is not.
C3_Witness ==
    /\ h_done = <<"flatten">>
    /\ Len(h_users) = 2
    /\ ~HasPath(h_users[2], <<"location">>)
    /\ RowValue(h_flat[2], "city") = Null
    /\ RowValue(h_flat[2], "street_number") = Null
    /\ RowValue(h_flat[1], "city") # Null

\* Equality of a cell read back with a value of the flat table, up to the
\* representation of numbers and of nulls in a DataFrame.
CellEq(a, b) ==
    \/ IsMissing(a) /\ IsMissing(b)
    \/ IsNumeric(a) /\ IsNumeric(b) /\ a.n = b.n
    \/ a = b

\* The postcode as text: the text of the value, null for null.
PostcodeText(v) == IF IsMissing(v) THEN Null ELSE S(PyStr(v))

\* C4 (as claimed): the table read back by the consumer has the rows and
\* columns of the flattened table and equal cells, the postcode column being
\* the text of the flat postcode and null where the flat postcode is null.
C4_ParquetRoundTrip ==
    h_done = <<"anonymize", "flatten", "serialize", "read">>
    => /\ FrameRows(h_df) = Len(h_flat)
       /\ FrameColumns(h_df) = ExpectedColumns
       /\ \A r \in DOMAIN h_flat : \A k \in DOMAIN ExpectedColumns :
            LET col == ExpectedColumns[k]
                flat == RowValue(h_flat[r], col)
            IN  CellEq(Cell(h_df, r, col),
                       IF col = "postcode" THEN PostcodeText(flat) ELSE flat)

(***************************************************************************)
(* SpecCrypto: encrypt_file on a plaintext file, a bit flipped in the      *)
(* encrypted file or not, then decrypt_file with some key.                 *)
(***************************************************************************)
Keys == {Key(1), Key(2)}

IVs == {1, 2}

Plaintexts ==
    { Bytes(""), Bytes("a"), Bytes("gAAAAA"),
      Parquet(Serialize(flatten_user_data(<<Raw(1), Raw(2)>>)).table) }

InitCrypto ==
    /\ h_input \in [p : Plaintexts, key : Keys]
    /\ fs = [NoFiles EXCEPT ![ParquetFile] = h_input.p]
    /\ h_done = <<>>
    /\ h_users = <<>>
    /\ h_flat = <<>>
    /\ h_df = <<>>
    /\ h_err = ""
    /\ h_key = Null
    /\ PipelineIdle

CallEncryptFile ==
    /\ h_done = <<>>
    /\ \E iv \in IVs :
         LET r == encrypt_file(fs, ParquetFile, h_input.key, iv)
         IN  /\ fs' = r.fs
             /\ h_err' = r.err
    /\ h_done' = Append(h_done, "encrypt")
    /\ UNCHANGED <<h_input, h_users, h_flat, h_df, h_key, pvars>>

FlipBitInFile ==
    /\ h_done = <<"encrypt">>
    /\ \E kind \in TamperKinds : fs' = [fs EXCEPT ![EncFile] = Tamper(fs[EncFile], kind)]
    /\ h_done' = Append(h_done, "tamper")
    /\ UNCHANGED <<h_input, h_users, h_flat, h_df, h_err, h_key, pvars>>

CallDecryptFile ==
    /\ Last(h_done) \in {"encrypt", "tamper"}
    /\ \E key \in Keys :
         LET r == decrypt_file(fs, EncFile, DecryptedFile, key)
         IN  /\ fs' = r.fs
             /\ h_err' = r.err
             /\ h_key' = key
    /\ h_done' = Append(h_done, "decrypt")
    /\ UNCHANGED <<h_input, h_users, h_flat, h_df, pvars>>

NextCrypto == CallEncryptFile \/ FlipBitInFile \/ CallDecryptFile

SpecCrypto == InitCrypto /\ [][NextCrypto]_vars

\* C5: encrypt_file on a file of content p with key k, then decrypt_file on
\* the .enc file with the same k, returns normally and leaves a decrypted file
\* whose content is p, for every p (the empty content too) and every k.
C5_DecryptInvertsEncrypt ==
    (h_done = <<"encrypt", "decrypt">> /\ h_key = h_input.key)
    => /\ h_err = ""
       /\ fs[DecryptedFile] = h_input.p
       /\ fs[EncFile] # h_input.p

\* The empty file went through encrypt_file and decrypt_file with one key.
C5_Witness ==
    /\ h_done = <<"encrypt", "decrypt">>
    /\ h_key = h_input.key
    /\ h_input.p = Bytes("")
    /\ fs[DecryptedFile] = Bytes("")

(***************************************************************************)
(* Spec: the two scripts as processes that share the working directory and *)
(* the bucket.  Each action is one stage of a main(); a stage that touches *)
(* the network or the disk may fail.                                       *)
(***************************************************************************)
Configs == {"ok", "missing", "malformed"}

\* What the API may return to one fetch: complete records, a record without
\* postcode, a record without its login sub-object.
FetchBatches ==
    { <<Raw(1)>>,
      <<Raw(2), Without(Raw(1), <<"location", "postcode">>)>>,
      <<Without(Raw(1), <<"login">>)>> }

Range(seq) == {seq[i] : i \in DOMAIN seq}

Init ==
    /\ HarnessIdle
    /\ fs = NoFiles
    /\ config \in Configs
    /\ bucket = NoBucket
    /\ entropy = 0
    /\ prod = ProdIdle
    /\ cons = ConsIdle
    /\ put_log = <<>>

\* A stage of the producer ends the run: by return (status "ok") or by exit(1)
\* or an uncaught exception (status "failed").
ProdExit(p, status, failed) ==
    [p EXCEPT !.pc = "exited", !.status = status, !.failed = failed]

ProdStage(p, stage, next) == [p EXCEPT !.pc = next, !.stages = Append(@, stage)]

\* get_user.py main, lines 149-161: load_config exits with status 1 when the
\* file is missing or malformed.
P_LoadConfig ==
    /\ prod.pc \in {"idle", "exited"}
    /\ prod.runs < MaxRuns
    /\ LET p == ProdStage([ProdIdle EXCEPT !.runs = prod.runs + 1], "config", "fetch")
       IN  prod' = IF config = "ok" THEN p ELSE ProdExit(p, "failed", "config")
    /\ UNCHANGED <<hvars, fs, config, bucket, entropy, cons, put_log>>

\* lines 164-167: fetch_random_users returns the records, or [] after a
\* RequestException; main returns when the list is empty.
P_Fetch ==
    /\ prod.pc = "fetch"
    /\ LET p == ProdStage(prod, "fetch", "anonymize")
       IN  \/ \E batch \in FetchBatches : prod' = [p EXCEPT !.users = batch]
           \/ prod' = ProdExit(p, "ok", "")          \* the API returned no record
           \/ prod' = ProdExit(p, "ok", "fetch")     \* RequestException
    /\ UNCHANGED <<hvars, fs, config, bucket, entropy, cons, put_log>>

\* line 169
P_Anonymize ==
    /\ prod.pc = "anonymize"
    /\ LET r == anonymize_user_data(prod.users)
           p == [ProdStage(prod, "anonymize", "flatten") EXCEPT !.users = r.users]
       IN  prod' = IF r.err = "" THEN p ELSE ProdExit(p, "failed", "anonymize")
    /\ UNCHANGED <<hvars, fs, config, bucket, entropy, cons, put_log>>

\* line 172
P_Flatten ==
    /\ prod.pc = "flatten"
    /\ prod' = [ProdStage(prod, "flatten", "serialize") EXCEPT
                  !.flat_users = flatten_user_data(prod.users)]
    /\ UNCHANGED <<hvars, fs, config, bucket, entropy, cons, put_log>>

\* lines 175-183
P_Serialize ==
    /\ prod.pc = "serialize"
    /\ LET r == Serialize(prod.flat_users)
           p == ProdStage(prod, "serialize", "generate_key")
       IN  /\ prod' = IF r.err = "" THEN p ELSE ProdExit(p, "failed", "serialize")
           /\ fs' = IF r.err = "" THEN [fs EXCEPT ![ParquetFile] = Parquet(r.table)]
                    ELSE fs
    /\ UNCHANGED <<hvars, config, bucket, entropy, cons, put_log>>

\* line 186: a fresh key
P_GenerateKey ==
    /\ prod.pc = "generate_key"
    /\ prod' = [ProdStage(prod, "generate_key", "encrypt") EXCEPT
                  !.key = Key(entropy + 1)]
    /\ entropy' = entropy + 1
    /\ UNCHANGED <<hvars, fs, config, bucket, cons, put_log>>

\* line 189: a fresh IV
P_Encrypt ==
    /\ prod.pc = "encrypt"
    /\ LET r == encrypt_file(fs, ParquetFile, prod.key, entropy + 1)
           p == [ProdStage(prod, "encrypt", "ensure_bucket") EXCEPT
                   !.encrypted_file = r.path]
       IN  /\ prod' = IF r.err = "" THEN p ELSE ProdExit(p, "failed", "encrypt")
           /\ fs' = r.fs
    /\ entropy' = entropy + 1
    /\ UNCHANGED <<hvars, config, bucket, cons, put_log>>

\* lines 192-193: bucket_exists and make_bucket raise on a failed request
P_EnsureBucket ==
    /\ prod.pc = "ensure_bucket"
    /\ LET p == ProdStage(prod, "ensure_bucket", "upload")
       IN  \/ /\ prod' = IF bucket.exists THEN p
                         ELSE [p EXCEPT !.effects = @ \cup {"make_bucket"}]
              /\ bucket' = [bucket EXCEPT !.exists = TRUE]
           \/ /\ prod' = ProdExit(p, "failed", "ensure_bucket")
              /\ UNCHANGED bucket
    /\ UNCHANGED <<hvars, fs, config, entropy, cons, put_log>>

\* Mutant: the Parquet file itself is sent.
UploadedPlainFile(p) == ParquetFile

\* The file that fput_object sends (line 197).
UploadedFile(p) == p.encrypted_file

\* lines 196-201: an exception of fput_object is caught, and main returns
P_Upload ==
    /\ prod.pc = "upload"
    /\ LET p == ProdStage(prod, "upload", "save_key")
       IN  \/ /\ prod' = [p EXCEPT !.effects = @ \cup {"put"}]
              /\ bucket' = [bucket EXCEPT !.obj = fs[UploadedFile(prod)]]
              /\ put_log' = Append(put_log, [run |-> prod.runs, key |-> prod.key,
                                             obj |-> fs[UploadedFile(prod)]])
           \/ /\ prod' = ProdExit(p, "ok", "upload")
              /\ UNCHANGED <<bucket, put_log>>
    /\ UNCHANGED <<hvars, fs, config, entropy, cons>>

\* lines 204-206: the key file is written last; open or write may raise
P_SaveKey ==
    /\ prod.pc = "save_key"
    /\ LET p == ProdStage(prod, "save_key", "exited")
       IN  \/ /\ prod' = [ProdExit(p, "ok", "") EXCEPT !.effects = @ \cup {"key_file"}]
              /\ fs' = [fs EXCEPT ![KeyFile] = prod.key]
           \/ /\ prod' = ProdExit(p, "failed", "save_key")
              /\ UNCHANGED fs
    /\ UNCHANGED <<hvars, config, bucket, entropy, cons, put_log>>

Producer ==
    \/ P_LoadConfig \/ P_Fetch \/ P_Anonymize \/ P_Flatten \/ P_Serialize
    \/ P_GenerateKey \/ P_Encrypt \/ P_EnsureBucket \/ P_Upload \/ P_SaveKey

ConsExit(c, status, failed) ==
    [c EXCEPT !.pc = "exited", !.status = status, !.failed = failed]

ConsStage(c, stage, next) == [c EXCEPT !.pc = next, !.stages = Append(@, stage)]

\* get_result_from_minio.py main, lines 84-98
C_LoadConfig ==
    /\ cons.pc \in {"idle", "exited"}
    /\ cons.runs < MaxConsumerRuns
    /\ LET c == ConsStage([ConsIdle EXCEPT !.runs = cons.runs + 1], "config", "download")
       IN  cons' = IF config = "ok" THEN c ELSE ConsExit(c, "failed", "config")
    /\ UNCHANGED <<hvars, fs, config, bucket, entropy, prod, put_log>>

\* line 100, download_encrypted_file: any exception of fget_object (no such
\* bucket, no such object, a failed request) is printed and followed by exit(1)
C_Download ==
    /\ cons.pc = "download"
    /\ LET c == ConsStage(cons, "download", "read_key")
       IN  \/ /\ bucket.exists
              /\ bucket.obj # Absent
              /\ cons' = c
              /\ fs' = [fs EXCEPT ![DownloadedFile] = bucket.obj]
           \/ /\ cons' = ConsExit(c, "failed", "download")
              /\ UNCHANGED fs
    /\ UNCHANGED <<hvars, config, bucket, entropy, prod, put_log>>

\* lines 103-109
C_ReadKey ==
    /\ cons.pc = "read_key"
    /\ LET c == ConsStage(cons, "read_key", "decrypt")
       IN  cons' = IF fs[KeyFile] # Absent THEN [c EXCEPT !.key = fs[KeyFile]]
                   ELSE ConsExit(c, "failed", "read_key")
    /\ UNCHANGED <<hvars, fs, config, bucket, entropy, prod, put_log>>

\* line 112: an exception of decrypt_file is not caught
C_Decrypt ==
    /\ cons.pc = "decrypt"
    /\ LET r == decrypt_file(fs, DownloadedFile, DecryptedFile, cons.key)
           c == ConsStage(cons, "decrypt", "read_parquet")
       IN  /\ cons' = IF r.err = ""
                      THEN [c EXCEPT !.wrote = fs[DecryptedFile] # r.fs[DecryptedFile]]
                      ELSE [ConsExit(c, "failed", "decrypt") EXCEPT
                              !.wrote = fs[DecryptedFile] # r.fs[DecryptedFile]]
           /\ fs' = r.fs
    /\ UNCHANGED <<hvars, config, bucket, entropy, prod, put_log>>

\* line 115: pq.read_table raises on a file that is no Parquet file
C_ReadParquet ==
    /\ cons.pc = "read_parquet"
    /\ LET c == ConsStage(cons, "read_parquet", "analyze")
       IN  cons' = IF fs[DecryptedFile].t = "parquet"
                   THEN [c EXCEPT !.df = read_parquet_file(fs[DecryptedFile].table)]
                   ELSE ConsExit(c, "failed", "read_parquet")
    /\ UNCHANGED <<hvars, fs, config, bucket, entropy, prod, put_log>>

\* analyze_data reads these columns of the frame; pd.to_datetime raises on a
\* registered_date that is no date text.
AnalysisRuns(df) ==
    /\ \A name \in {"registered_date", "gender", "country", "city"} : HasColumn(df, name)
    /\ \A r \in 1..FrameRows(df) :
         IsMissing(Cell(df, r, "registered_date")) \/ Cell(df, r, "registered_date").t = "str"

\* line 118: analyze_data prints its results; it changes its own frame only
C_Analyze ==
    /\ cons.pc = "analyze"
    /\ LET c == ConsStage(cons, "analyze", "cleanup")
       IN  cons' = IF AnalysisRuns(cons.df) THEN c ELSE ConsExit(c, "failed", "analyze")
    /\ UNCHANGED <<hvars, fs, config, bucket, entropy, prod, put_log>>

\* lines 121-123
C_Cleanup ==
    /\ cons.pc = "cleanup"
    /\ cons' = ConsExit(ConsStage(cons, "cleanup", "exited"), "ok", "")
    /\ fs' = [fs EXCEPT ![DownloadedFile] = Absent, ![DecryptedFile] = Absent]
    /\ UNCHANGED <<hvars, config, bucket, entropy, prod, put_log>>

Consumer ==
    \/ C_LoadConfig \/ C_Download \/ C_ReadKey \/ C_Decrypt \/ C_ReadParquet
    \/ C_Analyze \/ C_Cleanup

\* A token that Fernet made: its HMAC is the one of its other parts.
Genuine(token) ==
    /\ IsToken(token)
    /\ token = FernetEncrypt(token.ct.enc_key, token.ct.iv, token.ct.pt)

\* The environment: a bit of the stored object is flipped.  Which bit makes no
\* difference to the consumer (SpecCrypto flips each part); here it is one of
\* the ciphertext.
TamperObject ==
    /\ Genuine(bucket.obj)
    /\ bucket' = [bucket EXCEPT !.obj = Tamper(bucket.obj, "ct")]
    /\ UNCHANGED <<hvars, fs, config, entropy, prod, cons, put_log>>

Next == Producer \/ Consumer \/ TamperObject

Spec == Init /\ [][Next]_vars

(***************************************************************************)
(* Claims about the two pipelines, checked under Spec.                     *)
(***************************************************************************)
\* C6: when the consumer has called decrypt_file on a downloaded token with a
\* key other than the one the token was made with, or on a token with a bit
\* flipped, the call raised: the run ended as a failure at that stage, no
\* decrypted file was written, and read_parquet_file and analyze_data did not
\* run.
C6_DecryptRejectsWrongKeyOrTamperedToken ==
    ( /\ "decrypt" \in Range(cons.stages)
      /\ IsToken(fs[DownloadedFile])
      /\ \/ ~Genuine(fs[DownloadedFile])
         \/ fs[DownloadedFile].ct.enc_key # cons.key )
    => /\ cons.failed = "decrypt"
       /\ cons.status = "failed"
       /\ cons.pc = "exited"
       /\ ~cons.wrote
       /\ cons.df = <<>>
       /\ Range(cons.stages) \cap {"read_parquet", "analyze", "cleanup"} = {}

\* The consumer called decrypt_file on an intact token with the key of an
\* earlier producer run.
C6_Witness ==
    /\ cons.failed = "decrypt"
    /\ Genuine(fs[DownloadedFile])
    /\ IsKey(cons.key)
    /\ fs[DownloadedFile].ct.enc_key # cons.key

\* C7 (as claimed): whenever the bucket holds an intact encrypted object, the
\* key file exists and holds the key that decrypts it.
C7_KeyOutlivesCiphertext ==
    Genuine(bucket.obj)
    => /\ fs[KeyFile] # Absent
       /\ FernetDecrypt(fs[KeyFile], bucket.obj).err = ""

\* C8 (as claimed): a consumer that has terminated has left neither the
\* downloaded nor the decrypted file, and a producer that has terminated has
\* left neither the Parquet file nor its .enc copy.
C8_NoIntermediateFileLeft ==
    /\ cons.pc = "exited" => fs[DownloadedFile] = Absent /\ fs[DecryptedFile] = Absent
    /\ prod.pc = "exited" => fs[ParquetFile] = Absent /\ fs[EncFile] = Absent

\* C9 (as claimed): a run in which a stage failed has stopped at that stage
\* and ended as a failed run, in the producer and in the consumer.
C9_HaltAndSurfaceFirstFailure ==
    /\ prod.failed # ""
       => /\ prod.pc = "exited"
          /\ Last(prod.stages) = prod.failed
          /\ prod.status = "failed"
    /\ cons.failed # ""
       => /\ cons.pc = "exited"
          /\ Last(cons.stages) = cons.failed
          /\ cons.status = "failed"

\* The columns of the flat table that hold the sensitive leaves.
SensitiveColumns ==
    { "name_first", "name_last", "street_number", "street_name", "latitude",
      "longitude", "username", "password", "dob_date", "dob_age", "phone", "cell" }

\* The Parquet table holds a sentinel in every cell of a sensitive column.
TableAnonymized(table) ==
    \A c \in DOMAIN table :
        table[c].name \in SensitiveColumns
        => \A r \in DOMAIN table[c].vals :
             table[c].vals[r] = SentinelOf(SourcePath(table[c].name))

\* C10: everything the producer has put into the bucket is a Fernet token
\* made with the key generated in the run that put it, keys differ from run
\* to run, and its plaintext is the Parquet table of anonymized records; a run
\* whose fetch returned no record has put nothing, made no bucket and written
\* no key file.
C10_OnlyEncryptedAnonymizedTableIsPut ==
    /\ \A i \in DOMAIN put_log :
         LET e == put_log[i]
         IN  /\ Genuine(e.obj)
             /\ IsKey(e.key)
             /\ e.obj.ct.enc_key = e.key
             /\ \A j \in DOMAIN put_log : put_log[j].key = e.key => put_log[j].run = e.run
             /\ e.obj.ct.pt.t = "parquet"
             /\ FrameColumns(e.obj.ct.pt.table) = ExpectedColumns
             /\ TableAnonymized(e.obj.ct.pt.table)
    /\ Cardinality({put_log[i].run : i \in DOMAIN put_log}) = Len(put_log)
    /\ ("upload" \in Range(prod.stages) /\ prod.failed # "upload")
         <=> (\E i \in DOMAIN put_log : put_log[i].run = prod.runs)
    /\ ("fetch" \in Range(prod.stages) /\ prod.users = <<>>)
         => /\ prod.effects = {}
            /\ prod.pc = "exited"
            /\ \A i \in DOMAIN put_log : put_log[i].run # prod.runs

\* A run has put the token of a two-row table, and the next run, whose fetch
\* returned no record, has ended.
C10_Witness ==
    /\ Len(put_log) = 1
    /\ Len(put_log[1].obj.ct.pt.table[1].vals) = 2
    /\ prod.runs = 2
    /\ prod.stages = <<"config", "fetch">>
    /\ prod.users = <<>>
    /\ prod.pc = "exited"

====
